---- MODULE Spec2Model ----
(***************************************************************************)
(* Model of remove_dupes.py: the duplicate-group resolution engine.        *)
(*                                                                         *)
(*   Spec        process_group on one curated group, beside another actor  *)
(*   SpecBuild   build_dict_from_rows, group_by_phash, then                *)
(*               get_curated_grouped_entries                               *)
(*   SpecFrames  is_frames_match applied to bounded lists of paths         *)
(*   SpecRemove  remove_file beside another actor on the same files        *)
(*                                                                         *)
(* A path is the pair <<file_parent, file_basename>>.  A file's content is *)
(* what OpenCV can get out of it: whether VideoCapture opens it, the first *)
(* frame cap.read() yields, and the array imread yields.  A frame is a     *)
(* sequence of 8-bit values; <<>> stands for Python's None.                *)
(***************************************************************************)
EXTENDS Integers, Sequences, FiniteSets, TLC

VARIABLES
    exists,      \* the paths present on disk (os.path.exists / Path.exists)
    media,       \* path -> what OpenCV reads from the file while it exists
    fm_paths,    \* SpecFrames: the file_paths argument of is_frames_match
    fm_pc,       \* SpecFrames: "call" | "returned" (never "raised": line 443)
    fm_result,   \* SpecFrames: the value is_frames_match returned
    group,         \* Spec: the group handed to process_group
    auto_delete,   \* Spec: process_group's auto_delete argument
    pc,            \* Spec: where process_group is
    idx,           \* Spec: index of the next entry of the running for loop
    precheck,      \* Spec: what the call at line 217 returned ("none" before)
    biggest_file,  \* Spec: the keeper chosen at line 224 (NoEntry before)
    reported,      \* Spec: the file models the report loop has gone through
    chosen_model,  \* Spec: the operator's answer at line 321
    last,          \* Spec: what the latest iteration of the running loop did
    removed,       \* Spec: the paths remove_file has been called on
    error,         \* Spec: the exception that left process_group ("none")
    rows,                 \* SpecBuild: what read_rows_with_phash fetched
    entries,              \* SpecBuild: what build_dict_from_rows returned
    blacklisted_phashes,  \* SpecBuild: BLACKLISTED_PHASHES
    grouped_entries,      \* SpecBuild: what group_by_phash returned
    min_size,             \* SpecBuild: get_curated_grouped_entries' min_size
    min_duration,         \* SpecBuild: ... and min_duration
    curated,              \* SpecBuild: what get_curated_grouped_entries returned
    build_pc,             \* SpecBuild: "db" | "rows" | "grouped" | "curated",
                          \*            or "raised" (a TypeError)
    locked,        \* the paths whose unlink raises PermissionError
    rm_path,       \* remove_file's file_path
    rm_pc,         \* where remove_file is ("off": Spec is outside it)
    rm_failed,     \* this call of remove_file caught a PermissionError
    rm_unlinked,   \* this call's own unlink succeeded
    mv_dest        \* SpecRemove: move_file's destination

fsVars == <<exists, media>>
fmVars == <<fm_paths, fm_pc, fm_result>>
drvVars == <<group, auto_delete, pc, idx, precheck, biggest_file, reported,
             chosen_model, last, removed, error>>
buildVars == <<rows, entries, blacklisted_phashes, grouped_entries, min_size,
               min_duration, curated, build_pc>>
rmVars == <<locked, rm_path, rm_pc, rm_failed, rm_unlinked, mv_dest>>
vars == <<exists, media, fm_paths, fm_pc, fm_result, group, auto_delete, pc,
          idx, precheck, biggest_file, reported, chosen_model, last, removed,
          error, rows, entries, blacklisted_phashes, grouped_entries, min_size,
          min_duration, curated, build_pc, locked, rm_path, rm_pc, rm_failed,
          rm_unlinked, mv_dest>>

\* what each specification leaves alone
offDriver == <<fmVars, buildVars, rmVars>>
offFrames == <<drvVars, buildVars, rmVars>>
offBuild == <<drvVars, fmVars, rmVars, media>>
offRemove == <<drvVars, fmVars, buildVars, media>>

----------------------------------------------------------------------------
(* Bounds *)

MaxPaths == 3

MaxGroup == 3

MaxEntries == 3

----------------------------------------------------------------------------
(* Decoded media *)

NoFrame == <<>>

\* Python's None where a number is expected (min_size=None)
None == -1

Byte == 256

\* user_config.py is not part of the sources; both thresholds are set below
\* the largest value a wrapped uint8 square can take (255)
mse_video_threshold == 100

mse_image_threshold == 100

Content(opened, frame, image) == [opened |-> opened, frame |-> frame, image |-> image]

Absent == Content(FALSE, NoFrame, NoFrame)

Video(frame) == Content(TRUE, frame, NoFrame)

BrokenVideo == Content(TRUE, NoFrame, NoFrame)

Image(frame) == Content(FALSE, NoFrame, frame)

ReadFile(path) == IF path \in exists THEN media[path] ELSE Absent

\* numpy uint8 arithmetic: frame1 - frame2 and ** 2 both stay uint8 and wrap
SubU8(a, b) == (a - b) % Byte

SqU8(d) == (d * d) % Byte

RECURSIVE SumSqDiff(_, _)
SumSqDiff(frame1, frame2) ==
    IF frame1 = <<>> THEN 0
    ELSE SqU8(SubU8(Head(frame1), Head(frame2)))
         + SumSqDiff(Tail(frame1), Tail(frame2))

\* mse > threshold, with mse = sum / size (the mean is taken in float64)
MseExceeds(frame1, frame2, threshold) ==
    SumSqDiff(frame1, frame2) > threshold * Len(frame1)

\* cv2.resize(frame1, frame2.shape[:2][::-1]) with the default INTER_LINEAR
\* interpolation, along the one axis a frame has here.  Sample i of the
\* result (counted from 0) sits at x = (i + 0.5) * Len(frame) / n - 0.5 of
\* the source: x = num / den below.  It is the source sample at floor(x)
\* and the next one, weighted by the fraction of x and rounded; x is
\* clamped to the source's first and last samples.
resize(frame, n) ==
    [j \in 1..n |->
        LET num == (2 * j - 1) * Len(frame) - n
            den == 2 * n
            x0 == IF num < 0 THEN 0 ELSE num \div den
            r == IF num < 0 THEN 0 ELSE num % den
        IN IF x0 >= Len(frame) - 1 THEN frame[Len(frame)]
           ELSE (frame[x0 + 1] * (den - r) + frame[x0 + 2] * r + n) \div den]

----------------------------------------------------------------------------
(* is_frames_match *)

is_video(path) == ReadFile(path).opened

is_image(path) == ReadFile(path).image # NoFrame

FirstFrame(path) == ReadFile(path).frame

Imread(path) == ReadFile(path).image

\* the for loop of is_video_frames_match; frame1 is carried (and resized)
\* from one iteration to the next
RECURSIVE video_loop(_, _)
video_loop(frame1, rest) ==
    IF rest = <<>> THEN TRUE
    ELSE LET frame2 == FirstFrame(Head(rest)) IN
         IF frame1 = NoFrame \/ frame2 = NoFrame THEN FALSE
         ELSE LET f1 == IF Len(frame1) # Len(frame2)
                        THEN resize(frame1, Len(frame2)) ELSE frame1 IN
              IF MseExceeds(f1, frame2, mse_video_threshold) THEN FALSE
              ELSE video_loop(f1, Tail(rest))

\* video_paths[0] of an empty list raises IndexError, caught: False
is_video_frames_match(video_paths) ==
    IF video_paths = <<>> THEN FALSE
    ELSE video_loop(FirstFrame(video_paths[1]), Tail(video_paths))

RECURSIVE image_loop(_, _)
image_loop(frame1, rest) ==
    IF rest = <<>> THEN TRUE
    ELSE LET frame2 == Imread(Head(rest)) IN
         IF frame1 = NoFrame \/ frame2 = NoFrame THEN FALSE
         ELSE LET f1 == IF Len(frame1) # Len(frame2)
                        THEN resize(frame1, Len(frame2)) ELSE frame1 IN
              IF MseExceeds(f1, frame2, mse_image_threshold) THEN FALSE
              ELSE image_loop(f1, Tail(rest))

is_image_frames_match(image_paths) ==
    IF image_paths = <<>> THEN FALSE
    ELSE image_loop(Imread(image_paths[1]), Tail(image_paths))

is_frames_match(file_paths) ==
    IF \A k \in 1..Len(file_paths) : is_video(file_paths[k])
    THEN is_video_frames_match(file_paths)
    ELSE IF \A k \in 1..Len(file_paths) : is_image(file_paths[k])
    THEN is_image_frames_match(file_paths)
    ELSE FALSE

----------------------------------------------------------------------------
(* Rows of the files table and build_dict_from_rows *)

\* A cell of a fetched row: SQL NULL (Python's None), a string or a number.
Null == [kind |-> "null", v |-> ""]

Text(s) == [kind |-> "text", v |-> s]

Number(n) == [kind |-> "int", v |-> n]

\* the two cells line 101 turns into None
EmptyCells == {Null, Text("")}

\* line 101: value is None or value == ""
IsEmptyCell(cell) == cell.kind = "null" \/ (cell.kind = "text" /\ cell.v = "")

\* lines 101-104
NoneIfEmpty(cell) == IF IsEmptyCell(cell) THEN None ELSE cell.v

\* lines 98-105 for one row.  file_path is the pair of file_parent and
\* file_basename that line 105 joins with "/".
build_item(row) ==
    [file_id |-> NoneIfEmpty(row.file_id),
     file_model |-> NoneIfEmpty(row.file_model),
     file_path |-> <<NoneIfEmpty(row.file_parent), NoneIfEmpty(row.file_basename)>>,
     file_size |-> NoneIfEmpty(row.file_size),
     phash |-> NoneIfEmpty(row.phash),
     duration |-> NoneIfEmpty(row.duration)]

\* line 105: None + "/" and str + None raise TypeError
BuildRaises(fetched) ==
    \E k \in 1..Len(fetched) :
       IsEmptyCell(fetched[k].file_parent) \/ IsEmptyCell(fetched[k].file_basename)

\* lines 80-107, when line 105 raises for no row
build_dict_from_rows(fetched) == [k \in 1..Len(fetched) |-> build_item(fetched[k])]

----------------------------------------------------------------------------
(* Records, ranking and keeper selection *)

IsPremium(entry) == entry.file_path[1] = "premium"

NoEntry ==
    [file_id |-> 0, file_model |-> "", file_path |-> <<"", "">>,
     file_size |-> 0, phash |-> "", duration |-> 0]

NoIter ==
    [kind |-> "none", entry |-> <<"", "">>, frames_match |-> FALSE,
     choice |-> "none", removed |-> FALSE]

DrvIdle ==
    /\ group = <<>>
    /\ auto_delete = FALSE
    /\ pc = "idle"
    /\ idx = 0
    /\ precheck = "none"
    /\ biggest_file = NoEntry
    /\ reported = {}
    /\ chosen_model = ""
    /\ last = NoIter
    /\ removed = {}
    /\ error = "none"

FmIdle ==
    /\ fm_paths = <<>>
    /\ fm_pc = "idle"
    /\ fm_result = FALSE

BuildIdle ==
    /\ rows = <<>>
    /\ entries = <<>>
    /\ blacklisted_phashes = {}
    /\ grouped_entries = <<>>
    /\ min_size = None
    /\ min_duration = None
    /\ curated = <<>>
    /\ build_pc = "idle"

RmIdle ==
    /\ locked = {}
    /\ rm_path = <<"", "">>
    /\ rm_pc = "off"
    /\ rm_failed = FALSE
    /\ rm_unlinked = FALSE
    /\ mv_dest = <<"", "">>

\* sorted(..., reverse=True) is stable: equal keys keep their order
RECURSIVE InsertDesc(_, _)
InsertDesc(entry, sorted) ==
    IF sorted = <<>> THEN <<entry>>
    ELSE IF entry.file_size > Head(sorted).file_size THEN <<entry>> \o sorted
    ELSE <<Head(sorted)>> \o InsertDesc(entry, Tail(sorted))

RECURSIVE sort_files_by_size(_)
sort_files_by_size(g) ==
    IF g = <<>> THEN <<>>
    ELSE InsertDesc(g[Len(g)], sort_files_by_size(SubSeq(g, 1, Len(g) - 1)))

PremiumOf(sorted_files) == SelectSeq(sorted_files, IsPremium)

NonPremiumOf(sorted_files) == SelectSeq(sorted_files, LAMBDA e : ~IsPremium(e))

premium_files == PremiumOf(sort_files_by_size(group))

non_premium_files == NonPremiumOf(sort_files_by_size(group))

InSeq(x, s) == \E k \in 1..Len(s) : s[k] = x

BiggestStep_NoTieBreak(biggest, entry, premium) ==
    IF biggest = NoEntry \/ entry.file_size > biggest.file_size THEN entry
    ELSE biggest

\* one step of the for loop of find_biggest_file
BiggestStep(biggest, entry, premium) ==
    IF biggest = NoEntry \/ entry.file_size > biggest.file_size THEN entry
    ELSE IF entry.file_size = biggest.file_size /\ InSeq(entry, premium)
    THEN entry
    ELSE biggest

RECURSIVE BiggestLoop(_, _, _)
BiggestLoop(biggest, rest, premium) ==
    IF rest = <<>> THEN biggest
    ELSE BiggestLoop(BiggestStep(biggest, Head(rest), premium), Tail(rest), premium)

find_biggest_file(g, premium) == BiggestLoop(NoEntry, g, premium)

PathsOf(files) == [k \in 1..Len(files) |-> files[k].file_path]

ModelsOf(g) == {g[k].file_model : k \in 1..Len(g)}

----------------------------------------------------------------------------
(* SpecFrames: is_frames_match on every list of at most MaxPaths paths *)

FmFiles ==
    ( <<"d", "v0">>     :> Video(<<0>>)      @@
      <<"d", "v15">>    :> Video(<<15>>)     @@
      <<"d", "v16">>    :> Video(<<16>>)     @@
      <<"d", "v16w">>   :> Video(<<16, 16>>) @@
      <<"d", "broken">> :> BrokenVideo       @@
      <<"d", "i0">>     :> Image(<<0>>)      @@
      <<"d", "i15">>    :> Image(<<15>>)     @@
      <<"d", "gone">>   :> Video(<<0>>) )

FmExisting == DOMAIN FmFiles \ {<<"d", "gone">>}

PathLists(S, n) == UNION {[1..k -> S] : k \in 0..n}

InitFrames ==
    /\ media = FmFiles
    /\ exists = FmExisting
    /\ fm_paths \in PathLists(DOMAIN FmFiles, MaxPaths)
    /\ fm_pc = "call"
    /\ fm_result = FALSE
    /\ DrvIdle /\ BuildIdle /\ RmIdle

CallIsFramesMatch ==
    /\ fm_pc = "call"
    /\ fm_result' = is_frames_match(fm_paths)
    /\ fm_pc' = "returned"
    /\ UNCHANGED <<fm_paths, exists, media>>
    /\ UNCHANGED offFrames

NextFrames == CallIsFramesMatch

SpecFrames == InitFrames /\ [][NextFrames]_vars

Decodes(path) == FirstFrame(path) # NoFrame \/ Imread(path) # NoFrame

\* C8: is_frames_match returns False whenever some listed path fails to
\* decode (neither a first frame nor an image can be read from it), for
\* every list length including 1 and every position of that path; it
\* never raises.
C8_UndecodableNeverMatches ==
    /\ fm_pc # "raised"
    /\ (fm_pc = "returned" /\ \E k \in 1..Len(fm_paths) : ~Decodes(fm_paths[k]))
          => fm_result = FALSE

----------------------------------------------------------------------------
(* SpecRemove: remove_file and move_file, one statement at a time, beside *)
(* another actor that may lock, unlock and delete the same files         *)

RmFiles == {<<"misc", "1.mp4">>, <<"misc", "2.mp4">>}

InitRemove ==
    /\ exists \in SUBSET RmFiles
    /\ locked \in SUBSET exists
    /\ media = <<>>
    /\ rm_path = <<"", "">>
    /\ rm_pc = "idle"
    /\ rm_failed = FALSE
    /\ rm_unlinked = FALSE
    /\ mv_dest = <<"", "">>
    /\ DrvIdle /\ FmIdle /\ BuildIdle

\* lines 468-469
RmCall ==
    /\ rm_pc = "idle"
    /\ rm_path' \in RmFiles
    /\ rm_pc' = "if"
    /\ rm_failed' = FALSE
    /\ rm_unlinked' = FALSE
    /\ UNCHANGED <<exists, locked, mv_dest>>
    /\ UNCHANGED offRemove

\* line 470: if path.exists()
RmIf ==
    /\ rm_pc = "if"
    /\ rm_pc' = IF rm_path \in exists THEN "while" ELSE "returned"
    /\ UNCHANGED <<exists, locked, rm_path, rm_failed, rm_unlinked, mv_dest>>
    /\ UNCHANGED offRemove

\* line 471: while path.exists()
RmWhile ==
    /\ rm_pc = "while"
    /\ rm_pc' = IF rm_path \in exists THEN "unlink" ELSE "returned"
    /\ UNCHANGED <<exists, locked, rm_path, rm_failed, rm_unlinked, mv_dest>>
    /\ UNCHANGED offRemove

\* lines 473-474: path.unlink() succeeds
RmUnlinkOk ==
    /\ rm_pc = "unlink"
    /\ rm_path \in exists /\ rm_path \notin locked
    /\ exists' = exists \ {rm_path}
    /\ rm_unlinked' = TRUE
    /\ rm_pc' = "while"
    /\ UNCHANGED <<locked, rm_path, rm_failed, mv_dest>>
    /\ UNCHANGED offRemove

OnPermissionError_GiveUp == "returned"

\* lines 475-477: except PermissionError: print, sleep, go round again
OnPermissionError == "sleep"

\* lines 473, 475-476: path.unlink() raises PermissionError
RmUnlinkDenied ==
    /\ rm_pc = "unlink"
    /\ rm_path \in exists /\ rm_path \in locked
    /\ rm_failed' = TRUE
    /\ rm_pc' = OnPermissionError
    /\ UNCHANGED <<exists, locked, rm_path, rm_unlinked, mv_dest>>
    /\ UNCHANGED offRemove

\* line 473: path.unlink() of a path that is gone raises FileNotFoundError,
\* which line 475 does not catch
RmUnlinkMissing ==
    /\ rm_pc = "unlink"
    /\ rm_path \notin exists
    /\ rm_pc' = "raised"
    /\ UNCHANGED <<exists, locked, rm_path, rm_failed, rm_unlinked, mv_dest>>
    /\ UNCHANGED offRemove

\* line 477: time.sleep(1)
RmSleep ==
    /\ rm_pc = "sleep"
    /\ rm_pc' = "while"
    /\ UNCHANGED <<exists, locked, rm_path, rm_failed, rm_unlinked, mv_dest>>
    /\ UNCHANGED offRemove

\* the caller goes on, and may call remove_file again
RmReturn ==
    /\ rm_pc = "returned"
    /\ rm_pc' = "idle"
    /\ UNCHANGED <<exists, locked, rm_path, rm_failed, rm_unlinked, mv_dest>>
    /\ UNCHANGED offRemove

\* another process opens the file p (unlink then raises PermissionError)
OtherLockOn(p) ==
    /\ p \in exists \ locked
    /\ locked' = locked \cup {p}
    /\ UNCHANGED <<exists, rm_path, rm_pc, rm_failed, rm_unlinked, mv_dest>>
    /\ UNCHANGED offRemove

OtherUnlockOn(p) ==
    /\ p \in locked
    /\ locked' = locked \ {p}
    /\ UNCHANGED <<exists, rm_path, rm_pc, rm_failed, rm_unlinked, mv_dest>>
    /\ UNCHANGED offRemove

\* another process deletes the file p
OtherUnlinkOn(p) ==
    /\ p \in exists \ locked
    /\ exists' = exists \ {p}
    /\ UNCHANGED <<locked, rm_path, rm_pc, rm_failed, rm_unlinked, mv_dest>>
    /\ UNCHANGED offRemove

OtherLock == \E p \in RmFiles : OtherLockOn(p)

OtherUnlock == \E p \in RmFiles : OtherUnlockOn(p)

OtherUnlink == \E p \in RmFiles : OtherUnlinkOn(p)

\* where move_file may be asked to put a file: a new path, or one of RmFiles
MvDests == {<<"elsewhere", "1.mp4">>, <<"misc", "2.mp4">>}

\* lines 479-481
MvCall ==
    /\ rm_pc = "idle"
    /\ rm_path' \in RmFiles
    /\ mv_dest' \in MvDests \ {rm_path'}
    /\ rm_pc' = "mv_if"
    /\ rm_failed' = FALSE
    /\ rm_unlinked' = FALSE
    /\ UNCHANGED <<exists, locked>>
    /\ UNCHANGED offRemove

\* line 482: if source_path.exists()
MvIf ==
    /\ rm_pc = "mv_if"
    /\ rm_pc' = IF rm_path \in exists THEN "mv_rename" ELSE "mv_returned"
    /\ UNCHANGED <<exists, locked, rm_path, rm_failed, rm_unlinked, mv_dest>>
    /\ UNCHANGED offRemove

\* lines 484-486: the rename succeeds; a destination that exists is
\* replaced (what POSIX does)
MvRenameOk ==
    /\ rm_pc = "mv_rename"
    /\ rm_path \in exists \ locked
    /\ mv_dest \notin locked
    /\ exists' = (exists \ {rm_path}) \cup {mv_dest}
    /\ rm_pc' = "mv_returned"
    /\ UNCHANGED <<locked, rm_path, rm_failed, rm_unlinked, mv_dest>>
    /\ UNCHANGED offRemove

\* lines 485, 487-488: the rename raises an OSError, which is caught: the
\* source is gone (FileNotFoundError) or held by another process
\* (PermissionError), or the destination exists (FileExistsError, what
\* Windows does)
MvRenameFails ==
    /\ rm_pc = "mv_rename"
    /\ rm_path \notin exists \/ rm_path \in locked \/ mv_dest \in exists
    /\ rm_failed' = TRUE
    /\ rm_pc' = "mv_returned"
    /\ UNCHANGED <<exists, locked, rm_path, rm_unlinked, mv_dest>>
    /\ UNCHANGED offRemove

\* the caller goes on
MvReturn ==
    /\ rm_pc = "mv_returned"
    /\ rm_pc' = "idle"
    /\ UNCHANGED <<exists, locked, rm_path, rm_failed, rm_unlinked, mv_dest>>
    /\ UNCHANGED offRemove

\* the statements of move_file
MvStep ==
    \/ MvIf
    \/ MvRenameOk
    \/ MvRenameFails

\* the statements of remove_file
RmStep ==
    \/ RmIf
    \/ RmWhile
    \/ RmUnlinkOk
    \/ RmUnlinkDenied
    \/ RmUnlinkMissing
    \/ RmSleep

NextRemove ==
    \/ RmCall
    \/ RmStep
    \/ RmReturn
    \/ MvCall
    \/ MvStep
    \/ MvReturn
    \/ OtherLock
    \/ OtherUnlock
    \/ OtherUnlink

\* a running remove_file or move_file keeps running: the script is
\* single-threaded and nothing suspends it
SpecRemove ==
    InitRemove /\ [][NextRemove]_vars /\ WF_vars(RmStep) /\ WF_vars(MvStep)

RmRunning == rm_pc \in {"if", "while", "unlink", "sleep"}

\* C6: remove_file raises no error when the path is absent, be it absent at
\* the call (nothing is done) or removed by another actor between the
\* existence check and the unlink.
C6_RemoveFileNeverRaises ==
    /\ rm_pc # "raised"
    /\ (rm_pc = "returned" /\ ~rm_unlinked) => rm_path \notin exists

\* C10: remove_file returns only once the path no longer exists; a
\* PermissionError is never escalated (the attempt is followed by the sleep
\* and the sleep by another test of the path); and if the lock on the path
\* is eventually released for good, a running remove_file eventually ends
\* with the file gone.
C10_RemoveFileRetriesUntilGone ==
    /\ [](rm_pc = "returned" => rm_path \notin exists)
    /\ [][(rm_pc = "unlink" /\ rm_path \in exists /\ rm_path \in locked)
             => rm_pc' \in {"unlink", "sleep"}]_vars
    /\ [][rm_pc = "sleep" => rm_pc' \in {"sleep", "while"}]_vars
    /\ \A p \in RmFiles :
          <>[](p \notin locked) =>
             ((RmRunning /\ rm_path = p)
                 ~> (rm_pc \in {"returned", "raised"} /\ p \notin exists))

\* returned after at least one PermissionError, the file unlinked by this call
C10_Witness ==
    /\ rm_pc = "returned"
    /\ rm_failed
    /\ rm_unlinked
    /\ rm_path \notin exists

----------------------------------------------------------------------------
(* Spec: process_group on one curated group, beside the other actor *)

Sizes == {1, 2}

Models == {"A", "B"}

Parents == {"premium", "misc"}

Basenames == <<"1.mp4", "2.mp4", "3.mp4", "4.mp4", "5.mp4">>

DrvFrames == {<<0>>, <<15>>}

\* what the operator may type at a prompt
Answers == {"y", "n", "N"}

ModelInputs == Models \cup {"X"}

\* requests.get(health-check): a status, or an exception
ProbeReturns == {"200", "non200", "ConnectionError"}

UpdateOutcomes == {"200", "non200", "RequestException"}

Lower(s) == IF s = "N" THEN "n" ELSE IF s = "Y" THEN "y" ELSE s

\* the blank cells of a group's rows: none, the file_size of the first row
\* (sorted() raises wherever the None is), or the duration of one row
DrvBlanks(n) ==
    {<<0, "none">>, <<1, "file_size">>} \cup {<<k, "duration">> : k \in 1..n}

Attrs == [parent : Parents, size : Sizes, model : Models, frame : DrvFrames]

\* row k of the files table; empty is the cell (NULL or '') the blank
\* column of the blank row holds
DrvRow(k, a, blank, empty) ==
    [file_id |-> Number(k), file_model |-> Text(a.model),
     file_basename |-> Text(Basenames[k]), file_parent |-> Text(a.parent),
     file_size |-> IF blank = <<k, "file_size">> THEN empty ELSE Number(a.size),
     phash |-> Text("h"),
     duration |-> IF blank = <<k, "duration">> THEN empty ELSE Number(0)]

\* A curated group: at least two entries of build_dict_from_rows, every
\* file on disk.  The first entry's model and frame are fixed: the other
\* choices are their mirror images.
Init ==
    /\ \E n \in 2..MaxGroup : \E a \in [1..n -> Attrs] :
       \E blank \in DrvBlanks(n), empty \in EmptyCells :
          /\ a[1].model = "A" /\ a[1].frame = <<0>>
          /\ group = build_dict_from_rows([k \in 1..n |-> DrvRow(k, a[k], blank, empty)])
          /\ media = [p \in {<<a[k].parent, Basenames[k]>> : k \in 1..n} |->
                        Video(a[CHOOSE k \in 1..n : Basenames[k] = p[2]].frame)]
    /\ exists = DOMAIN media
    /\ auto_delete \in BOOLEAN
    /\ pc = "start"
    /\ idx = 0
    /\ precheck = "none"
    /\ biggest_file = NoEntry
    /\ reported = {}
    /\ chosen_model = ""
    /\ last = NoIter
    /\ removed = {}
    /\ error = "none"
    /\ FmIdle /\ BuildIdle /\ RmIdle

\* process_group leaves with an exception
Raise(exception) ==
    /\ pc' = "raised"
    /\ error' = exception

\* line 187: sorted() compares the file_size keys, and a None among the
\* keys of two or more entries makes a comparison raise TypeError
SortRaises == \E k \in 1..Len(group) : group[k].file_size = None

\* line 211
SortFails ==
    /\ pc = "start"
    /\ SortRaises
    /\ Raise("TypeError")
    /\ UNCHANGED <<group, auto_delete, idx, precheck, biggest_file, reported,
                   chosen_model, last, removed>>
    /\ UNCHANGED fsVars /\ UNCHANGED offDriver

\* lines 216-219: what the group-wide comparison of automatic mode returns
\* ("none": interactive mode does not run it)
PreCheckResult ==
    IF ~auto_delete THEN "none"
    ELSE IF is_frames_match(PathsOf(premium_files \o non_premium_files))
    THEN "true" ELSE "false"

PreCheckFails_Inverted == auto_delete /\ PreCheckResult = "true"

\* line 217: if not self.is_frames_match(...)
PreCheckFails == auto_delete /\ PreCheckResult = "false"

\* lines 216-222
PreCheckSkip ==
    /\ pc = "start"
    /\ ~SortRaises
    /\ PreCheckFails
    /\ precheck' = PreCheckResult
    /\ pc' = "done"
    /\ UNCHANGED <<group, auto_delete, idx, biggest_file, reported,
                   chosen_model, last, removed, error>>
    /\ UNCHANGED fsVars /\ UNCHANGED offDriver

PreCheckPass ==
    /\ pc = "start"
    /\ ~SortRaises
    /\ ~PreCheckFails
    /\ precheck' = PreCheckResult
    /\ pc' = "select"
    /\ UNCHANGED <<group, auto_delete, idx, biggest_file, reported,
                   chosen_model, last, removed, error>>
    /\ UNCHANGED fsVars /\ UNCHANGED offDriver

all_same_model == Cardinality(ModelsOf(group)) = 1

GroupPaths == {group[k].file_path : k \in 1..Len(group)}

\* lines 224-234
SelectKeeper ==
    /\ pc = "select"
    /\ biggest_file' = find_biggest_file(group, premium_files)
    /\ pc' = IF all_same_model THEN "same_loop" ELSE "diff_report"
    /\ idx' = 1
    /\ UNCHANGED <<group, auto_delete, precheck, reported, chosen_model,
                   last, removed, error>>
    /\ UNCHANGED fsVars /\ UNCHANGED offDriver

FramesMatchKeeper(entry) ==
    is_frames_match(<<entry.file_path, biggest_file.file_path>>)

\* lines 269-277 and 342-350: whether remove_file is called
Deletes(frames_match, choice) ==
    IF auto_delete THEN frames_match ELSE Lower(choice) # "n"

\* The comparison that opens an iteration: is_frames_match on the entry
\* and the keeper.  What follows it (wait) is next.
CompareEntry(kind, entry, wait) ==
    /\ last' = [kind |-> kind, entry |-> entry.file_path,
                frames_match |-> FramesMatchKeeper(entry),
                choice |-> "none", removed |-> FALSE]
    /\ pc' = wait
    /\ UNCHANGED <<group, auto_delete, idx, precheck, biggest_file, reported,
                   chosen_model, removed, error>>
    /\ UNCHANGED fsVars /\ UNCHANGED offDriver

\* is_server_live raises: requests.get failed with something other than a
\* ConnectionError, which is all that line 29 catches
ProbeRaises ==
    /\ Raise("RequestException")
    /\ UNCHANGED <<group, auto_delete, idx, precheck, biggest_file, reported,
                   chosen_model, last, removed>>
    /\ UNCHANGED fsVars /\ UNCHANGED offDriver

\* is_server_live() returning: True on status 200, False on another status
\* or a ConnectionError
is_server_live(response) == response = "200"

\* lines 245-249: update_videos is called when is_server_live() holds, and
\* whatever its request does (a status, a RequestException) it returns.
\* Neither call leaves anything behind in the program.
Notify(live, update) ==
    /\ \E response \in ProbeReturns : live = is_server_live(response)
    /\ update = IF live THEN "sent" ELSE "skipped"
    /\ update = "sent" => \E outcome \in UpdateOutcomes : TRUE

\* readable_duration(None): int(None) raises TypeError (line 460)
DurationRaises(entry) == entry.duration = None

\* the entry of the group the running iteration is about
CurrentEntry == CHOOSE e \in {group[k] : k \in 1..Len(group)} : e.file_path = last.entry

\* The requests of is_server_live and update_videos have returned; after
\* them (after) is next.
Notified(after) ==
    /\ \E live \in BOOLEAN, update \in {"sent", "skipped"} : Notify(live, update)
    /\ pc' = after
    /\ UNCHANGED <<group, auto_delete, idx, precheck, biggest_file, reported,
                   chosen_model, last, removed, error>>
    /\ UNCHANGED fsVars /\ UNCHANGED offDriver

\* a print of the report formats a None duration
PrintRaises ==
    /\ Raise("TypeError")
    /\ UNCHANGED <<group, auto_delete, idx, precheck, biggest_file, reported,
                   chosen_model, last, removed>>
    /\ UNCHANGED fsVars /\ UNCHANGED offDriver

\* lines 269-277 and 342-350: automatic mode decides on frames_match, the
\* interactive one on the operator's answer; remove_file is entered, or the
\* loop goes on
DecideEntry(entry, loop, removing) ==
    \E choice \in Answers \cup {"none"} :
       LET del == Deletes(last.frames_match, choice) IN
       /\ choice = "none" <=> auto_delete
       /\ last' = [last EXCEPT !.choice = choice, !.removed = del]
       /\ removed' = IF del THEN removed \cup {entry.file_path} ELSE removed
       /\ pc' = IF del THEN removing ELSE loop
       /\ idx' = IF del THEN idx ELSE idx + 1
       /\ rm_path' = IF del THEN entry.file_path ELSE rm_path
       /\ rm_pc' = IF del THEN "if" ELSE rm_pc
       /\ UNCHANGED <<group, auto_delete, precheck, biggest_file, reported,
                      chosen_model, error, locked, rm_failed, rm_unlinked, mv_dest>>
       /\ UNCHANGED fsVars /\ UNCHANGED <<fmVars, buildVars>>

\* remove_file returned: on with the loop
RemoveReturns(loop) ==
    /\ rm_pc = "returned"
    /\ pc' = loop
    /\ idx' = idx + 1
    /\ rm_path' = <<"", "">>
    /\ rm_pc' = "off"
    /\ rm_failed' = FALSE
    /\ rm_unlinked' = FALSE
    /\ UNCHANGED <<group, auto_delete, precheck, biggest_file, reported,
                   chosen_model, last, removed, error, locked, mv_dest>>
    /\ UNCHANGED fsVars /\ UNCHANGED <<fmVars, buildVars>>

\* remove_file raised (FileNotFoundError, line 473): nothing up to
\* process_grouped_entries catches it
RemoveRaises ==
    /\ pc \in {"same_remove", "diff_remove"}
    /\ rm_pc = "raised"
    /\ Raise("FileNotFoundError")
    /\ rm_path' = <<"", "">>
    /\ rm_pc' = "off"
    /\ rm_failed' = FALSE
    /\ rm_unlinked' = FALSE
    /\ UNCHANGED <<group, auto_delete, idx, precheck, biggest_file, reported,
                   chosen_model, last, removed, locked, mv_dest>>
    /\ UNCHANGED fsVars /\ UNCHANGED <<fmVars, buildVars>>

SkipEntry ==
    /\ idx' = idx + 1
    /\ UNCHANGED <<group, auto_delete, pc, precheck, biggest_file, reported,
                   chosen_model, last, removed, error>>
    /\ UNCHANGED fsVars /\ UNCHANGED offDriver

LoopDone ==
    /\ pc' = "done"
    /\ UNCHANGED <<group, auto_delete, idx, precheck, biggest_file, reported,
                   chosen_model, last, removed, error>>
    /\ UNCHANGED fsVars /\ UNCHANGED offDriver

same_order == premium_files \o non_premium_files

SameCandidate_All(entry) == TRUE

\* line 240
SameCandidate(entry) == entry # biggest_file

\* line 325
DiffCandidate(entry) == entry.file_model # chosen_model

\* line 240: the keeper itself is passed over
SameSkipKeeper ==
    /\ pc = "same_loop" /\ idx <= Len(same_order)
    /\ ~SameCandidate(same_order[idx])
    /\ SkipEntry

\* lines 239-243: the comparison; the requests of lines 245-249 are next
SameIter ==
    /\ pc = "same_loop" /\ idx <= Len(same_order)
    /\ SameCandidate(same_order[idx])
    /\ CompareEntry("same", same_order[idx], "same_notify")

\* lines 245-246, is_server_live raising
SameIterProbeRaises ==
    /\ pc = "same_notify"
    /\ ProbeRaises

\* lines 251-267: the keeper's duration is printed, then the entry's
SamePrintRaises ==
    /\ pc = "same_notify"
    /\ DurationRaises(biggest_file) \/ DurationRaises(CurrentEntry)
    /\ \E live \in BOOLEAN, update \in {"sent", "skipped"} : Notify(live, update)
    /\ PrintRaises

\* lines 245-267
SameNotified ==
    /\ pc = "same_notify"
    /\ ~(DurationRaises(biggest_file) \/ DurationRaises(CurrentEntry))
    /\ Notified("same_decide")

\* lines 269-277
SameDecide ==
    /\ pc = "same_decide"
    /\ DecideEntry(same_order[idx], "same_loop", "same_remove")

SameRemoveReturns ==
    /\ pc = "same_remove"
    /\ RemoveReturns("same_loop")

SameDone ==
    /\ pc = "same_loop" /\ idx > Len(same_order)
    /\ LoopDone

\* max(files_with_model, key=file_size): the first of the largest
RECURSIVE MaxBySize(_, _)
MaxBySize(best, rest) ==
    IF rest = <<>> THEN best
    ELSE MaxBySize(IF Head(rest).file_size > best.file_size THEN Head(rest) ELSE best,
                   Tail(rest))

biggest_file_with_model(file_model) ==
    LET files_with_model == SelectSeq(group, LAMBDA e : e.file_model = file_model)
    IN MaxBySize(Head(files_with_model), Tail(files_with_model))

\* lines 289-299, one model of the set file_models (a set: in any order):
\* the comparison of the model's biggest file with the keeper
DiffReport ==
    /\ pc = "diff_report"
    /\ \E file_model \in ModelsOf(group) \ reported :
          CompareEntry("report", biggest_file_with_model(file_model), "report_notify")

\* lines 303-304, is_server_live raising
DiffReportProbeRaises ==
    /\ pc = "report_notify"
    /\ ProbeRaises

\* lines 311-319: the duration of the model's biggest file is printed
DiffReportPrintRaises ==
    /\ pc = "report_notify"
    /\ DurationRaises(CurrentEntry)
    /\ \E live \in BOOLEAN, update \in {"sent", "skipped"} : Notify(live, update)
    /\ PrintRaises

\* lines 303-319: the iteration on this model is over
DiffReported ==
    /\ pc = "report_notify"
    /\ ~DurationRaises(CurrentEntry)
    /\ \E live \in BOOLEAN, update \in {"sent", "skipped"} : Notify(live, update)
    /\ reported' = reported \cup {CurrentEntry.file_model}
    /\ pc' = "diff_report"
    /\ UNCHANGED <<group, auto_delete, idx, precheck, biggest_file,
                   chosen_model, last, removed, error>>
    /\ UNCHANGED fsVars /\ UNCHANGED offDriver

\* line 321
DiffChoose ==
    /\ pc = "diff_report"
    /\ reported = ModelsOf(group)
    /\ chosen_model' \in ModelInputs
    /\ pc' = "diff_loop"
    /\ idx' = 1
    /\ last' = NoIter
    /\ UNCHANGED <<group, auto_delete, precheck, biggest_file, reported,
                   removed, error>>
    /\ UNCHANGED fsVars /\ UNCHANGED offDriver

\* line 325: entries of the chosen model are passed over
DiffSkipChosen ==
    /\ pc = "diff_loop" /\ idx <= Len(group)
    /\ ~DiffCandidate(group[idx])
    /\ SkipEntry

\* lines 324-334: the comparison, and the report with the entry's
\* duration; the requests of lines 336-340 are next
DiffIter ==
    /\ pc = "diff_loop" /\ idx <= Len(group)
    /\ DiffCandidate(group[idx])
    /\ ~DurationRaises(group[idx])
    /\ CompareEntry("diff", group[idx], "diff_notify")

\* lines 326-334: the report raises on the entry's duration
DiffPrintRaises ==
    /\ pc = "diff_loop" /\ idx <= Len(group)
    /\ DiffCandidate(group[idx])
    /\ DurationRaises(group[idx])
    /\ last' = [kind |-> "diff", entry |-> group[idx].file_path,
                frames_match |-> FramesMatchKeeper(group[idx]),
                choice |-> "none", removed |-> FALSE]
    /\ Raise("TypeError")
    /\ UNCHANGED <<group, auto_delete, idx, precheck, biggest_file, reported,
                   chosen_model, removed>>
    /\ UNCHANGED fsVars /\ UNCHANGED offDriver

\* lines 336-337, is_server_live raising
DiffIterProbeRaises ==
    /\ pc = "diff_notify"
    /\ ProbeRaises

\* lines 336-340
DiffNotified ==
    /\ pc = "diff_notify"
    /\ Notified("diff_decide")

\* lines 342-350
DiffDecide ==
    /\ pc = "diff_decide"
    /\ DecideEntry(group[idx], "diff_loop", "diff_remove")

DiffRemoveReturns ==
    /\ pc = "diff_remove"
    /\ RemoveReturns("diff_loop")

DiffDone ==
    /\ pc = "diff_loop" /\ idx > Len(group)
    /\ LoopDone

\* the statements of remove_file, while process_group is inside it
DrvRemoveStep ==
    /\ pc \in {"same_remove", "diff_remove"}
    /\ RmStep

\* Where process_group waits: in the requests of is_server_live and
\* update_videos, at the prompts (line 321; lines 274 and 347) and in
\* remove_file.  Another process may lock, unlock or delete a file of the
\* group meanwhile.
DrvWaiting ==
    \/ pc \in {"same_notify", "same_decide", "same_remove", "report_notify",
               "diff_notify", "diff_decide", "diff_remove"}
    \/ pc = "diff_report" /\ reported = ModelsOf(group)

DrvOtherLock == DrvWaiting /\ \E p \in GroupPaths : OtherLockOn(p)

DrvOtherUnlock == DrvWaiting /\ \E p \in GroupPaths : OtherUnlockOn(p)

DrvOtherUnlink == DrvWaiting /\ \E p \in GroupPaths : OtherUnlinkOn(p)

Next ==
    \/ SortFails
    \/ PreCheckSkip
    \/ PreCheckPass
    \/ SelectKeeper
    \/ SameSkipKeeper
    \/ SameIter
    \/ SameIterProbeRaises
    \/ SamePrintRaises
    \/ SameNotified
    \/ SameDecide
    \/ SameRemoveReturns
    \/ SameDone
    \/ DiffReport
    \/ DiffReportProbeRaises
    \/ DiffReportPrintRaises
    \/ DiffReported
    \/ DiffChoose
    \/ DiffSkipChosen
    \/ DiffIter
    \/ DiffPrintRaises
    \/ DiffIterProbeRaises
    \/ DiffNotified
    \/ DiffDecide
    \/ DiffRemoveReturns
    \/ DiffDone
    \/ DrvRemoveStep
    \/ RemoveRaises
    \/ DrvOtherLock
    \/ DrvOtherUnlock
    \/ DrvOtherUnlink

Spec == Init /\ [][Next]_vars

----------------------------------------------------------------------------
(* Claims about process_group (Spec) *)

MaxSize == CHOOSE m \in {group[k].file_size : k \in 1..Len(group)} :
              \A k \in 1..Len(group) : group[k].file_size <= m

\* C1: in automatic mode, when is_frames_match over all members (premium
\* first, then the others, each by descending size) returned False,
\* process_group is over without a keeper chosen, without a notification
\* and without a remove_file call: no file of the group is deleted, in
\* single-model and multi-model groups alike.
C1_AutoMismatchDeletesNothing ==
    (auto_delete /\ precheck = "false") =>
        /\ pc = "done"
        /\ biggest_file = NoEntry
        /\ last = NoIter
        /\ removed = {}
        /\ rm_pc = "off"
        /\ exists = GroupPaths

C1_Witness ==
    /\ pc = "done" /\ auto_delete /\ precheck = "false"
    /\ ~all_same_model
    /\ Len(group) = MaxGroup

\* C2: for every member a deletion loop considers (each non-keeper member
\* in the single-model branch, each member of another model than the
\* chosen one in the multi-model branch), remove_file is called on it, in
\* automatic mode, iff is_frames_match([member, keeper]) returned True,
\* and in interactive mode unless the operator declined.  (An iteration
\* that has reached its decision is looked at once the decision is made.)
C2_DeletedIffDecided ==
    (/\ last.kind \in {"same", "diff"}
     /\ pc \notin {"same_notify", "same_decide", "diff_notify", "diff_decide"}) =>
        /\ last.removed <=> (IF auto_delete THEN last.frames_match
                             ELSE Lower(last.choice) # "n")
        /\ last.removed <=> last.entry \in removed

\* C3: the keeper find_biggest_file returns is a member of the group of
\* maximum file_size, and it is premium whenever some member of maximum
\* size is premium.
C3_KeeperIsBiggestPremiumFirst ==
    (pc \notin {"start", "select"} /\ precheck # "false" /\ ~SortRaises) =>
        /\ InSeq(biggest_file, group)
        /\ biggest_file.file_size = MaxSize
        /\ (\E k \in 1..Len(group) :
               group[k].file_size = MaxSize /\ IsPremium(group[k]))
             => IsPremium(biggest_file)

\* a tie at the maximum between a non-premium entry that comes first and a
\* premium one that comes later, resolved for the premium one
C3_Witness ==
    /\ pc \in {"same_loop", "diff_report"}
    /\ IsPremium(biggest_file)
    /\ \E j, k \in 1..Len(group) :
          /\ j < k
          /\ group[k] = biggest_file
          /\ group[j].file_size = MaxSize
          /\ ~IsPremium(group[j])

\* C7: a failing notification sink never aborts a group's resolution: no
\* error of the probe (connection failure, timeout, other request error,
\* non-200 status) or of the update leaves process_same_model_files or
\* process_different_model_files.
C7_NotificationNeverAborts ==
    error # "RequestException"

\* C9 as claimed: once process_group is over, the keeper's file has not
\* been passed to remove_file, so that process_group has left some member
\* of the group alone, whatever the mode and the operator's answers.
C9_KeeperNeverRemoved ==
    pc = "done" =>
        /\ biggest_file.file_path \notin removed
        /\ GroupPaths \ removed # {}

\* C9 as amended: the keeper's file is never passed to remove_file in the
\* single-model branch, nor in the multi-model branch when the chosen
\* model is the keeper's; in the multi-model branch no member of the
\* chosen model is passed to remove_file; so process_group leaves some
\* member of the group alone whenever the group has one model or the
\* chosen tag names a model of the group.
C9_KeeperKeptUnlessOtherModelChosen ==
    /\ (all_same_model \/ chosen_model = biggest_file.file_model)
          => biggest_file.file_path \notin removed
    /\ \A k \in 1..Len(group) :
          (~all_same_model /\ group[k].file_model = chosen_model)
             => group[k].file_path \notin removed
    /\ (all_same_model \/ chosen_model \in ModelsOf(group))
          => GroupPaths \ removed # {}
    /\ removed \subseteq GroupPaths

C9_Witness ==
    /\ pc = "done"
    /\ ~all_same_model
    /\ chosen_model = biggest_file.file_model
    /\ removed # {}
    /\ biggest_file.file_path \in exists

----------------------------------------------------------------------------
(* SpecBuild: build_dict_from_rows, group_by_phash, then *)
(* get_curated_grouped_entries                           *)

Phashes == {"h1", "h2", "hb"}

Blacklists == {{}, {"hb"}}

\* file_size in bytes, duration in half seconds (0.5 s, 1.0 s)
Durations == {1, 2}

MinSizes == {None, 3}

MinDurations == {None, 2}

BuildAttrs == [phash : Phashes, size : Sizes, duration : Durations]

\* the column of the first row that holds an empty cell, if any
BuildBlanks == {"none", "file_size", "duration", "file_parent"}

\* row k of the files table
BuildRow(k, a, blank, empty) ==
    LET cell(column, value) == IF k = 1 /\ blank = column THEN empty ELSE value
    IN [file_id |-> Number(k), file_model |-> Text("A"),
        file_basename |-> Text(Basenames[k]),
        file_parent |-> cell("file_parent", Text("misc")),
        file_size |-> cell("file_size", Number(a.size)),
        phash |-> Text(a.phash),
        duration |-> cell("duration", Number(a.duration))]

GroupStep_NoBlacklist(groups, entry, blacklisted) ==
    IF entry.phash \in DOMAIN groups
    THEN [groups EXCEPT ![entry.phash] = Append(@, entry)]
    ELSE groups @@ (entry.phash :> <<entry>>)

\* lines 152-157: one entry of the for loop of group_by_phash
GroupStep(groups, entry, blacklisted) ==
    IF entry.phash \notin blacklisted
    THEN IF entry.phash \in DOMAIN groups
         THEN [groups EXCEPT ![entry.phash] = Append(@, entry)]
         ELSE groups @@ (entry.phash :> <<entry>>)
    ELSE groups

RECURSIVE GroupLoop(_, _, _)
GroupLoop(groups, rest, blacklisted) ==
    IF rest = <<>> THEN groups
    ELSE GroupLoop(GroupStep(groups, Head(rest), blacklisted), Tail(rest),
                   blacklisted)

\* exact_match=True, as main calls it
group_by_phash(result_dict, blacklisted) == GroupLoop(<<>>, result_dict, blacklisted)

RECURSIVE SumSize(_)
SumSize(g) == IF g = <<>> THEN 0 ELSE Head(g).file_size + SumSize(Tail(g))

RECURSIVE SumDuration(_)
SumDuration(g) == IF g = <<>> THEN 0 ELSE Head(g).duration + SumDuration(Tail(g))

\* Python's round() of a number of half seconds: to the nearest integer,
\* a tie going to the even one
round(halves) ==
    LET q == halves \div 2 IN
    IF halves % 2 = 0 THEN q ELSE IF q % 2 = 0 THEN q ELSE q + 1

\* lines 113-115 and 124-128: the groups of more than one entry
MoreThanOne(d) == [h \in {k \in DOMAIN d : Len(d[k]) > 1} |-> d[h]]

\* lines 118-121
DropMissing(d) ==
    [h \in DOMAIN d |-> SelectSeq(d[h], LAMBDA entry : entry.file_path \in exists)]

\* lines 131-136
MinSizeFilter(d, ms) ==
    IF ms # None
    THEN [h \in {k \in DOMAIN d : SumSize(d[k]) >= ms} |-> d[h]]
    ELSE d

\* lines 139-144
MinDurationFilter(d, md) ==
    IF md # None
    THEN [h \in {k \in DOMAIN d : round(SumDuration(d[k])) >= md} |-> d[h]]
    ELSE d

get_curated_SizeFirst(result_dict, ms, md) ==
    MoreThanOne(DropMissing(
        MinDurationFilter(MinSizeFilter(MoreThanOne(result_dict), ms), md)))

\* lines 109-146
get_curated_grouped_entries(result_dict, ms, md) ==
    MinDurationFilter(
        MinSizeFilter(MoreThanOne(DropMissing(MoreThanOne(result_dict))), ms),
        md)

\* line 135: sum() over a group with a None file_size raises TypeError
SizeSumRaises(result_dict, ms) ==
    /\ ms # None
    /\ LET d == MoreThanOne(DropMissing(MoreThanOne(result_dict)))
       IN \E h \in DOMAIN d : \E k \in 1..Len(d[h]) : d[h][k].file_size = None

\* line 143: sum() over a group with a None duration raises TypeError; the
\* groups are those the size filter left
DurationSumRaises(result_dict, ms, md) ==
    /\ md # None
    /\ LET d == MinSizeFilter(MoreThanOne(DropMissing(MoreThanOne(result_dict))), ms)
       IN \E h \in DOMAIN d : \E k \in 1..Len(d[h]) : d[h][k].duration = None

CurateRaises(result_dict, ms, md) ==
    \/ SizeSumRaises(result_dict, ms)
    \/ ~SizeSumRaises(result_dict, ms) /\ DurationSumRaises(result_dict, ms, md)

\* Any table of at most MaxEntries rows with any of its files missing; a
\* table with an empty cell has all its files.
InitBuild ==
    /\ \E n \in 0..MaxEntries : \E a \in [1..n -> BuildAttrs] :
       \E blank \in BuildBlanks, empty \in EmptyCells :
          /\ rows = [k \in 1..n |-> BuildRow(k, a[k], blank, empty)]
          /\ exists \in SUBSET {<<"misc", Basenames[k]>> : k \in 1..n}
          /\ blank # "none" => exists = {<<"misc", Basenames[k]>> : k \in 1..n}
    /\ blacklisted_phashes \in Blacklists
    /\ media = <<>>
    /\ entries = <<>>
    /\ grouped_entries = <<>>
    /\ min_size = None
    /\ min_duration = None
    /\ curated = <<>>
    /\ build_pc = "db"
    /\ DrvIdle /\ FmIdle /\ RmIdle

\* main, line 495
BuildDict ==
    /\ build_pc = "db"
    /\ ~BuildRaises(rows)
    /\ entries' = build_dict_from_rows(rows)
    /\ build_pc' = "rows"
    /\ UNCHANGED <<rows, blacklisted_phashes, grouped_entries, min_size,
                   min_duration, curated, exists>>
    /\ UNCHANGED offBuild

\* main, line 495: line 105 raises TypeError
BuildDictRaises ==
    /\ build_pc = "db"
    /\ BuildRaises(rows)
    /\ build_pc' = "raised"
    /\ UNCHANGED <<rows, entries, blacklisted_phashes, grouped_entries,
                   min_size, min_duration, curated, exists>>
    /\ UNCHANGED offBuild

\* main, lines 498-500
GroupByPhash ==
    /\ build_pc = "rows"
    /\ grouped_entries' = group_by_phash(entries, blacklisted_phashes)
    /\ build_pc' = "grouped"
    /\ UNCHANGED <<rows, entries, blacklisted_phashes, min_size, min_duration,
                   curated, exists>>
    /\ UNCHANGED offBuild

\* main, lines 502-504, with either threshold given or not
Curate ==
    /\ build_pc = "grouped"
    /\ \E ms \in MinSizes, md \in MinDurations :
          /\ min_size' = ms
          /\ min_duration' = md
          /\ IF CurateRaises(grouped_entries, ms, md)
             THEN curated' = curated /\ build_pc' = "raised"
             ELSE /\ curated' = get_curated_grouped_entries(grouped_entries, ms, md)
                  /\ build_pc' = "curated"
    /\ UNCHANGED <<rows, entries, blacklisted_phashes, grouped_entries, exists>>
    /\ UNCHANGED offBuild

NextBuild == BuildDict \/ BuildDictRaises \/ GroupByPhash \/ Curate

SpecBuild == InitBuild /\ [][NextBuild]_vars

Survivors(h) ==
    SelectSeq(grouped_entries[h], LAMBDA entry : entry.file_path \in exists)

MeetsThresholds(g) ==
    /\ min_size # None => SumSize(g) >= min_size
    /\ min_duration # None => round(SumDuration(g)) >= min_duration

\* C4: every group get_curated_grouped_entries returns holds only records
\* whose file exists, at least two of them; a group left with fewer than two
\* existing members is absent; and the size and duration sums that decide
\* whether a group stays are those of its existing members alone.
C4_CuratedGroupsExistAndPair ==
    build_pc = "curated" =>
        /\ DOMAIN curated \subseteq DOMAIN grouped_entries
        /\ \A h \in DOMAIN curated :
              /\ \A k \in 1..Len(curated[h]) : curated[h][k].file_path \in exists
              /\ Len(curated[h]) >= 2
              /\ curated[h] = Survivors(h)
        /\ \A h \in DOMAIN grouped_entries :
              h \in DOMAIN curated <=>
                 (Len(Survivors(h)) >= 2 /\ MeetsThresholds(Survivors(h)))

\* a group of three with one file gone is kept with its two survivors,
\* under a size threshold the three together meet no better than the two
C4_Witness ==
    /\ build_pc = "curated"
    /\ min_size # None
    /\ \E h \in DOMAIN curated :
          /\ Len(grouped_entries[h]) = 3
          /\ Len(curated[h]) = 2

\* C5: group_by_phash partitions the records whose phash is not denylisted:
\* its keys are their phashes, the group of a key is the records of that
\* phash in encounter order (each once), and no denylisted phash is a key.
C5_GroupingIsPartition ==
    build_pc \in {"grouped", "curated"} =>
        /\ DOMAIN grouped_entries =
              {entries[k].phash : k \in 1..Len(entries)} \ blacklisted_phashes
        /\ \A h \in DOMAIN grouped_entries :
              grouped_entries[h] = SelectSeq(entries, LAMBDA e : e.phash = h)

C5_Witness ==
    /\ build_pc = "grouped"
    /\ Len(entries) = 3
    /\ entries[1].phash = "h1" /\ entries[2].phash = "hb" /\ entries[3].phash = "h1"
    /\ blacklisted_phashes = {"hb"}
    /\ DOMAIN grouped_entries = {"h1"}
    /\ grouped_entries["h1"] = <<entries[1], entries[3]>>

----------------------------------------------------------------------------
(* The mean squared error of two frames, without 8-bit wraparound *)

RECURSIVE TrueSumSqDiff(_, _)
TrueSumSqDiff(frame1, frame2) ==
    IF frame1 = <<>> THEN 0
    ELSE (Head(frame1) - Head(frame2)) * (Head(frame1) - Head(frame2))
         + TrueSumSqDiff(Tail(frame1), Tail(frame2))

\* a call on two videos whose first frames decode to the same shape
EqualShapeVideoPair ==
    /\ Len(fm_paths) = 2
    /\ is_video(fm_paths[1]) /\ is_video(fm_paths[2])
    /\ FirstFrame(fm_paths[1]) # NoFrame
    /\ Len(FirstFrame(fm_paths[1])) = Len(FirstFrame(fm_paths[2]))

\* C11: for two decoded frames of equal shape, the value is_frames_match
\* compares with the threshold is the true mean squared error (the mean of
\* (a - b)^2 with no wraparound of the 8-bit values), so a pair whose true
\* MSE exceeds the threshold is never reported as matching.
C11_ComparedValueIsTrueMse ==
    (fm_pc = "returned" /\ EqualShapeVideoPair) =>
        LET frame1 == FirstFrame(fm_paths[1])
            frame2 == FirstFrame(fm_paths[2])
        IN /\ SumSqDiff(frame1, frame2) = TrueSumSqDiff(frame1, frame2)
           /\ TrueSumSqDiff(frame1, frame2) > mse_video_threshold * Len(frame1)
                 => fm_result = FALSE

====
